---- MODULE Spec2Model ----
(***************************************************************************)
(* The commit workflow of gemini-commit-generator as a state machine.      *)
(*                                                                         *)
(* The repository holds five generations of the same program.  They are    *)
(* modelled side by side; the variable `variant` (fixed by Init) says      *)
(* which one runs:                                                         *)
(*   "aic"   src/unnamed/part_000   the bash script                        *)
(*   "index" src/index.js           first node version (generateAndSelect) *)
(*   "p005"  src/unnamed/part_005   node, spinner object, rl.close + run() *)
(*   "p006"  src/unnamed/part_006   node, language selection, run(lang)    *)
(*   "p004"  src/unnamed/part_004   node, mtime check, commitWithMessage   *)
(*                                                                         *)
(* Texts are sequences of one-character strings so that trim() and the     *)
(* shell's handling of command substitution are computed, not assumed.     *)
(***************************************************************************)
EXTENDS Naturals, Sequences, FiniteSets

(***************************************************************************)
(* Bounds of the model                                                     *)
(***************************************************************************)
\* menu inputs the user types in one process
MaxChoices == 4
\* answers the user gives to the language prompt
MaxLangTries == 2
\* generation calls issued in one process
MaxGen == 5
\* status lines given to getChangeSummary on its own
MaxLines == 2
\* how far around the budget the lengths of the diffs given to the truncation go
MaxOver == 2

(***************************************************************************)
(* Data                                                                    *)
(***************************************************************************)
Variants == {"aic", "index", "p005", "p006", "p004"}
NodeVariants == Variants \ {"aic"}

\* the value of a variable that holds no text (JS null / undefined)
None == <<"<none>">>

\* what the generator can print on stdout
RawOutputs == { <<"a">>, <<" ", "b", "\n">>, <<"\n">> }

\* what the edit file can hold when the editor exits (besides the text that
\* was written into it), resp. the line typed at the bash `read` prompt
EditedTexts == { <<"c", "\n">>, <<" ">>, <<"\"", "\\", "\\">> }

Histories == {"h1", "h2"}
Contexts == {"", "why"}

BranchRelations ==
    {"NoUpstream", "UpToDate", "LocalAhead", "RemoteAhead", "Diverged", "Detached"}
BlockingRelations == {"RemoteAhead", "Diverged", "Detached"}

\* two-character porcelain status codes after `git add .`
StatusCodes == { <<"A", " ">>, <<"M", " ">>, <<"D", " ">>, <<"R", " ">> }

\* what the repository can hold after `git add .`: the porcelain status and
\* the staged diff that go together
Snapshots ==
    { [status |-> <<>>,            diff |-> ""],      \* nothing staged
      [status |-> << <<"M", " ">> >>, diff |-> "d1"], \* one modified file
      [status |-> << <<"R", " ">> >>, diff |-> "d2"]  \* one renamed file
    }

\* the ways a process stops taking steps
Terminal ==
    {"Committed", "Cancelled", "NoChanges", "EnvFailed", "Errored",
     "PromptFailed", "GenFailed", "CommitFailed", "Crashed", "Updated", "Hung"}

(***************************************************************************)
(* Pure helpers                                                            *)
(***************************************************************************)
IsSpace(c) == c \in {" ", "\n", "\t"}

RECURSIVE TrimLeft(_)
TrimLeft(s) ==
    IF s = <<>> THEN <<>>
    ELSE IF IsSpace(Head(s)) THEN TrimLeft(Tail(s)) ELSE s

RECURSIVE TrimRight(_)
TrimRight(s) ==
    IF s = <<>> THEN <<>>
    ELSE IF IsSpace(s[Len(s)]) THEN TrimRight(SubSeq(s, 1, Len(s) - 1)) ELSE s

\* String.prototype.trim
Trim(s) == TrimRight(TrimLeft(s))

\* $(...) of bash removes the trailing newlines of the output only
RECURSIVE StripTrailingNewlines(_)
StripTrailingNewlines(s) ==
    IF s = <<>> THEN <<>>
    ELSE IF s[Len(s)] = "\n" THEN StripTrailingNewlines(SubSeq(s, 1, Len(s) - 1))
    ELSE s

\* s.includes(c) on a status code
Includes(s, c) == \E i \in 1..Len(s) : s[i] = c

\* a summary that counts a line in every bucket whose marker it contains
RECURSIVE getChangeSummaryEveryBucket(_)
getChangeSummaryEveryBucket(lines) ==
    IF lines = <<>> THEN [added |-> 0, modified |-> 0, deleted |-> 0]
    ELSE LET r == getChangeSummaryEveryBucket(Tail(lines))
             s == Head(lines)
             a == IF Includes(s, "?") \/ Includes(s, "A") THEN 1 ELSE 0
             m == IF Includes(s, "M") THEN 1 ELSE 0
             d == IF Includes(s, "D") THEN 1 ELSE 0
         IN  [added |-> r.added + a, modified |-> r.modified + m,
              deleted |-> r.deleted + d]

\* getChangeSummary: one bucket per line, chosen by an if / else-if chain
RECURSIVE getChangeSummary(_)
getChangeSummary(lines) ==
    IF lines = <<>> THEN [added |-> 0, modified |-> 0, deleted |-> 0]
    ELSE LET r == getChangeSummary(Tail(lines))
             s == Head(lines)
         IN  IF Includes(s, "?") \/ Includes(s, "A")
                THEN [r EXCEPT !.added = @ + 1]
             ELSE IF Includes(s, "M")
                THEN [r EXCEPT !.modified = @ + 1]
             ELSE IF Includes(s, "D")
                THEN [r EXCEPT !.deleted = @ + 1]
             ELSE r

NoSummary == [added |-> 0, modified |-> 0, deleted |-> 0]

\* a run without the "nothing to commit" test
NothingStagedNeverTested(v, summ, fullDiffEmpty) == FALSE

\* the test that ends the run as "nothing to commit"
NothingStaged(v, summ, fullDiffEmpty) ==
    IF v = "aic" THEN fullDiffEmpty
    ELSE summ.added = 0 /\ summ.modified = 0 /\ summ.deleted = 0

\* the repository before `git add .` has run in this pass
NoRepo == [status |-> <<>>, diff |-> "-", history |-> "-"]

\* no read has completed
NoOrder == <<>>

\* [getChangeSummary(), execAsync('git diff --cached ...'), execAsync('git log ...')]
ReadNames == <<"status", "diff", "log">>

\* the orders in which the reads can complete: any for the three concurrent
\* reads of the p00x versions, the order of the calls for the synchronous
\* reads of index.js and of the script
ReadOrders(v) ==
    IF v \in {"p005", "p006", "p004"}
       THEN { o \in { <<a, b, c>> : a \in {"status", "diff", "log"},
                                    b \in {"status", "diff", "log"},
                                    c \in {"status", "diff", "log"} } :
                o[1] # o[2] /\ o[1] # o[3] /\ o[2] # o[3] }
       ELSE { ReadNames }

\* what a read resolves with: a summary or a text
ReadValue(name, r) ==
    CASE name = "status" -> [summary |-> getChangeSummary(r.status), text |-> ""]
      [] name = "diff" -> [summary |-> NoSummary, text |-> r.diff]
      [] name = "log" -> [summary |-> NoSummary, text |-> r.history]

\* the completions of the reads, in the order they arrive
Completions(order, r) ==
    [k \in 1..Len(order) |-> [name |-> order[k], value |-> ReadValue(order[k], r)]]

\* an array of the values in the order of their arrival
PromiseAllByArrival(names, done) == [i \in 1..Len(names) |-> done[i].value]

\* Promise.all: the value of the i-th promise at index i
PromiseAll(names, done) ==
    [i \in 1..Len(names) |->
        done[CHOOSE k \in 1..Len(done) : done[k].name = names[i]].value]

\* a user intent that may be missing: undefined / an unset USER_CONTEXT is
\* Absent, a string s (the empty one included) is Given(s)
Absent == <<>>
Given(s) == <<s>>
Intents == {Absent, Given(""), Given("why")}

\* an operand that `??` would replace: only a missing one
IntentMissingOnlyWhenAbsent(intent) == intent = Absent

\* an operand that `||` resp. `:-` replaces: a missing or an empty one
IntentMissing(intent) == intent = Absent \/ intent = Given("")

\* 'None' resp. "Analyze the diff and generate the most appropriate message."
Placeholder(v) == IF v = "aic" THEN "Analyze the diff" ELSE "None"

\* `${userContext || 'None'}` resp. ${USER_CONTEXT:-"Analyze the diff ..."}
\* for an intent that may be missing
RenderIntent(v, intent) ==
    IF IntentMissing(intent) THEN Placeholder(v) ELSE intent[1]

\* the same for the answer to the context prompt, which is always a string
IntentText(v, ctx) == RenderIntent(v, Given(ctx))

\* the prompt template, for an intent that may be missing
BuildRequest(v, l, h, intent, d) ==
    [lang |-> l, history |-> h, intent |-> RenderIntent(v, intent), diff |-> d]

\* the prompt template
BuildPrompt(v, l, h, ctx, d) ==
    [lang |-> l, history |-> h, intent |-> IntentText(v, ctx), diff |-> d]

NoRequest == [lang |-> "-", history |-> "-", intent |-> "-", diff |-> "-"]

\* the last step was not the exit of the editor
NoEdit == [content |-> None, mtimeAdvanced |-> FALSE, launched |-> FALSE]

\* if (diff.length > 3000)
DiffBudget == 3000

\* '\n\n...(diff truncated for performance)'
TruncationMarker ==
    <<"\n", "\n", ".", ".", ".", "(", "d", "i", "f", "f", " ", "t", "r", "u",
      "n", "c", "a", "t", "e", "d", " ", "f", "o", "r", " ", "p", "e", "r", "f",
      "o", "r", "m", "a", "n", "c", "e", ")">>

\* a cut that also takes a diff of exactly the budget
OverBudgetFromBudgetOn(d) == Len(d) >= DiffBudget

\* diff.length > 3000
OverBudget(d) == Len(d) > DiffBudget

\* diff = diff.substring(0, 3000) + marker; the script sends the whole diff
BudgetedDiff(v, d) ==
    IF v \in NodeVariants /\ OverBudget(d)
       THEN SubSeq(d, 1, DiffBudget) \o TruncationMarker
       ELSE d

(***************************************************************************)
(* Decisions of the code, one operator per decision                        *)
(***************************************************************************)
\* run(selectedLang): only the versions with STRINGS ask for a language
HasLanguagePrompt(v) == v \in {"p006", "p004"}

\* no language selected (selectedLang = null); the script has no language
NoLang == "none"

\* if (!lang) { ... question ... }: run() asks for the language unless it
\* was given one
RunEntry(v, l) ==
    IF HasLanguagePrompt(v) /\ l = NoLang THEN "LangPrompt" ELSE "EnvCheck"

\* const t = STRINGS[lang]; the versions without STRINGS show English texts
StringsOf(v, l) == IF HasLanguagePrompt(v) THEN l ELSE "en"

\* a Regenerate that calls run() without the language
LangForgottenOnRerun(v, l) == NoLang

\* return run(lang): the language the new run() is given
LangOnRerun(v, l) == l

\* the language an answer to the language prompt selects; NoLang re-prompts
LangOf(v, answer) ==
    IF v = "p004"
       THEN (IF answer = "1" THEN "en" ELSE IF answer = "2" THEN "ko" ELSE NoLang)
       ELSE (IF answer = "1" THEN "en" ELSE "ko")

\* switch (choice) / case $choice in
MenuChoiceOf(v, input) ==
    IF v = "aic"
       THEN CASE input = "1" -> "Commit"
              [] input = "2" -> "Regenerate"
              [] input = "3" -> "Edit"
              [] input = "4" -> "Update"
              [] input = "5" -> "Cancel"
              [] OTHER -> "Invalid"
       ELSE CASE input = "1" -> "Commit"
              [] input = "2" -> "Regenerate"
              [] input = "3" -> "Edit"
              [] input = "4" -> "Cancel"
              [] OTHER -> "Invalid"

MenuInputs == {"1", "2", "3", "4", "5", "x"}

\* aiMsg = rawOutput.trim() resp. AI_MSG=$(gemini ...)
GeneratedText(v, raw) ==
    IF v = "aic" THEN StripTrailingNewlines(raw) ELSE Trim(raw)

\* what counts as a failed generation: the node versions look at the exit
\* status of the generator only, the script at the emptiness of its output only
GenerationFailed(v, ok, raw) ==
    IF v = "aic" THEN GeneratedText(v, raw) = <<>> ELSE ~ok

\* a failed generation that falls through to the menu
AfterGenerationFailureShowsMenu(v) == "MenuOpen"

\* where a failed generation leads
AfterGenerationFailure(v) == IF v = "aic" THEN "Drafting" ELSE "GenFailed"

\* a Regenerate that only shows the menu again
RegenerateWithoutGeneration(v) == "MenuOpen"

\* a Regenerate that calls the generator at once in every version
RegenerateOnlyGenerator(v) == "Drafting"

\* where the run() versions restart on Regenerate; the others call the
\* generator again at once
RegenerateTarget(v) ==
    IF v \in {"p005", "p006", "p004"} THEN "EnvCheck" ELSE "Drafting"

\* rl.close() before the recursion
ClosesReadlineOnRegenerate(v) == v = "p005"

\* an editInEditor that forgets to trim what it read
editInEditorUntrimmed(v, content, mtimeAdvanced) ==
    IF v = "p004"
       THEN (IF mtimeAdvanced /\ Trim(content) # <<>> THEN content ELSE None)
       ELSE content

\* editInEditor(initialContent) -> string | null, resp. `read edited_msg`
editInEditor(v, content, mtimeAdvanced) ==
    IF v = "p004"
       THEN (IF mtimeAdvanced /\ Trim(content) # <<>> THEN Trim(content) ELSE None)
       ELSE Trim(content)

\* if (editedMsg) / [ -n "$edited_msg" ]
Truthy(text) == text # None /\ text # <<>>

\* the text the commit step is given: the one of the current scope
MessageToCommit(current) == current

\* a commit case that returns to the menu when git fails
AfterCommitFailureStaysInLoop(v, ok) == IF ok THEN "Committed" ELSE "MenuOpen"

\* a commit case without return: the loop shows the menu again
AfterCommitStaysInLoop(v, ok) == "MenuOpen"

\* where a commit call leads: the script does not look at git's exit status
AfterCommit(v, ok) ==
    IF v = "aic" \/ ok THEN "Committed" ELSE "CommitFailed"

\* a default case that leaves the loop
LoopTopLeaves(v) == "Cancelled"

\* where the menu loop goes after an input that ends nothing
\* (invalid input, edit without result): the script's loop starts with
\* generate_msg, the node loops start with the menu
LoopTop(v) == IF v = "aic" THEN "Drafting" ELSE "MenuOpen"

\* a spawn() without shell: true that cannot start the editor emits 'error',
\* which nobody listens to; with shell: true the shell exits and 'exit' fires
EditorLaunchFailureIsFatal(v) == v \in {"index", "p005", "p006"}

\* the exit status of the process for each way of stopping;
\* "running" = the process has not exited
ExitStatus(v, t) ==
    CASE t \in {"Committed", "Cancelled", "Updated"} -> "0"
      [] t = "NoChanges" -> (IF v = "aic" THEN "1" ELSE "0")
      [] t = "GenFailed" -> (IF v = "index" THEN "running" ELSE "1")
      [] t = "Hung" -> "running"
      [] t \in Terminal -> "1"
      [] OTHER -> "running"

\* rl.close() is called on these ways out of the p00x versions
ClosesReadline(v, t) == v \in {"p005", "p006", "p004"} /\ t \in Terminal \ {"Crashed", "Hung"}

\* a catch of the repository check that reports and goes on
RepositoryCheckIgnored(v, ok) == "Stage"

\* where the repository check leads: exit 1 / process.exit(1) when it fails
AfterRepositoryCheck(v, ok) == IF ok THEN "Stage" ELSE "EnvFailed"

\* the arguments the command line can carry; only the script reads them
Flags == {"", "--update", "--uninstall"}

\* the script handles its flags after the generator check; the node
\* versions never look at process.argv
HandlesFlags(v) == v = "aic"

\* [[ "$1" == "--update" ]]: the only flag the script knows
IsUpdateFlag(f) == f = "--update"

\* aiMsg.replace(/"/g, '\\"')
RECURSIVE EscapeQuotes(_)
EscapeQuotes(s) ==
    IF s = <<>> THEN <<>>
    ELSE IF Head(s) = "\""
            THEN <<"\\", "\"">> \o EscapeQuotes(Tail(s))
            ELSE <<Head(s)>> \o EscapeQuotes(Tail(s))

\* what /bin/sh makes of the characters between the double quotes of
\* `git commit -m "..."`: a backslash before \ or " is removed and the next
\* character taken literally, a bare " is removed (it ends the quoting)
RECURSIVE ShellDoubleQuoted(_)
ShellDoubleQuoted(s) ==
    IF s = <<>> THEN <<>>
    ELSE IF Head(s) = "\\" /\ Len(s) >= 2 /\ s[2] \in {"\\", "\""}
            THEN <<s[2]>> \o ShellDoubleQuoted(SubSeq(s, 3, Len(s)))
    ELSE IF Head(s) = "\""
            THEN ShellDoubleQuoted(Tail(s))
    ELSE <<Head(s)>> \o ShellDoubleQuoted(Tail(s))

\* the message git receives: through a file (commitWithMessage), through a
\* quoted bash variable (script), or through a command line built by
\* string interpolation and parsed by the shell of execSync
HandedToGit(v, message) ==
    IF v \in {"p004", "aic"} THEN message
    ELSE ShellDoubleQuoted(EscapeQuotes(message))

\* git aborts a commit whose message is empty once cleaned up
GitRefuses(message) == Trim(message) = <<>>

\* only commitWithMessage writes the message to a file (fs.writeFileSync)
UsesMessageFile(v) == v = "p004"

\* an unlink that follows the commit instead of sitting in a finally
RemovesMessageFileOnSuccess(v, ok) == UsesMessageFile(v) /\ ok

\* try { execSync(git commit -F) } finally { unlinkSync }: whether git
\* succeeded or execSync threw
RemovesMessageFile(v, ok) == UsesMessageFile(v)

\* index.js hands the request to the generator through a file,
\* fs.writeFileSync(tmpFilePath, prompt); the other versions pass it inline
UsesRequestFile(v) == v = "index"

\* cleanupAndExit() and the catch of run() unlink that file; the return after
\* a failed generation and an uncaught editor error do not
RemovesRequestFile(v, t) ==
    v = "index" /\ t \in {"Committed", "Cancelled", "CommitFailed", "Errored"}

\* const step = startSpinner(...) at the start of run(), after the language
\* is known: the p00x versions
EntrySpinners(v) == IF v \in {"p005", "p006", "p004"} THEN 1 ELSE 0

\* startSpinner(...) before the generation call: the node versions
GenerationSpinners(v) == IF v \in NodeVariants THEN 1 ELSE 0

\* process.exit(...) is called on these ways out, resp. the script ends; the
\* other ways out of the node versions are a return from run()
CallsProcessExit(v, t) ==
    CASE v = "aic" -> t \in Terminal
      [] v = "index" -> t \in Terminal \ {"GenFailed", "Crashed", "Hung"}
      [] OTHER -> t \in {"EnvFailed", "Errored", "GenFailed", "CommitFailed",
                         "PromptFailed"}

\* handlers that stop only the spinner of a call that succeeded
StopsSpinnerOnSuccessOnly(v, t) ==
    \/ v \in {"p005", "p006", "p004"} /\ t = "ContextPrompt"
    \/ v \in NodeVariants /\ t = "MenuOpen"

\* step.stop() / stopSpinner() is called on the way to t: before the context
\* prompt, before the menu, and in the catch blocks and early returns
StopsSpinner(v, t) ==
    \/ v \in {"p005", "p006", "p004"} /\ t \in {"ContextPrompt", "NoChanges"}
    \/ v = "p004" /\ t = "EnvFailed"
    \/ v \in NodeVariants /\ t \in {"MenuOpen", "GenFailed"}

\* the timers left when the handler has gone to t; an exit of the process
\* or an uncaught exception ends them all
SpinnersAfter(v, t, n) ==
    IF StopsSpinner(v, t) \/ CallsProcessExit(v, t) \/ t = "Crashed" THEN 0 ELSE n

\* a generation call that is started and not waited for
AfterIssueNotAwaited(v) == "MenuOpen"

\* aiMsg = await execAsync('gemini ...', prompt): run() goes on when the call
\* has settled
AfterIssue(v) == "Drafting"

\* a Cancel after which the menu is shown again
AfterCancelBackToMenu(v) == "MenuOpen"

\* case '4': rl.close(); return / cleanupAndExit(0) / exit 0
AfterCancel(v) == "Cancelled"

\* the node versions edit through a temporary file, the script through `read`
UsesEditFile(v) == v # "aic"

\* the 'exit' handler of editInEditor unlinks the file; it does not run when
\* the editor could not be spawned and nobody listens to 'error'
RemovesEditFile(v, launched) ==
    UsesEditFile(v) /\ (launched \/ ~EditorLaunchFailureIsFatal(v))

\* what localRef(), upstreamRef() and mergeBase() can resolve to: a commit,
\* or nothing
Pointers == {"absent", "c1", "c2", "c3"}

\* the inputs of check(): the three pointers, and whether HEAD is a
\* symbolic branch (FALSE: detached head)
HeadInputs ==
    [local : Pointers, upstream : Pointers, mergeBase : Pointers, symbolic : BOOLEAN]

\* the rules with Diverged left out
RuleHoldsWithoutDiverged(rel, h) ==
    CASE rel = "NoUpstream" -> h.upstream = "absent"
      [] rel = "UpToDate" -> h.upstream # "absent" /\ h.local = h.upstream
      [] rel = "RemoteAhead" ->
            h.upstream # "absent" /\ h.local = h.mergeBase /\ h.upstream # h.mergeBase
      [] rel = "LocalAhead" ->
            h.upstream # "absent" /\ h.upstream = h.mergeBase /\ h.local # h.mergeBase
      [] rel = "Detached" -> h.upstream # "absent" /\ ~h.symbolic
      [] OTHER -> FALSE

\* the rule of each relation: absent upstream => NoUpstream; otherwise the
\* comparisons of local, upstream and merge base, and the detached head
RuleHolds(rel, h) ==
    CASE rel = "NoUpstream" -> h.upstream = "absent"
      [] rel = "UpToDate" -> h.upstream # "absent" /\ h.local = h.upstream
      [] rel = "RemoteAhead" ->
            h.upstream # "absent" /\ h.local = h.mergeBase /\ h.upstream # h.mergeBase
      [] rel = "LocalAhead" ->
            h.upstream # "absent" /\ h.upstream = h.mergeBase /\ h.local # h.mergeBase
      [] rel = "Diverged" ->
            h.upstream # "absent" /\ h.local # h.mergeBase /\ h.upstream # h.mergeBase
      [] rel = "Detached" -> h.upstream # "absent" /\ ~h.symbolic
      [] OTHER -> FALSE

\* check(): the relations whose rule holds of the pointers
check(h) == {rel \in BranchRelations : RuleHolds(rel, h)}

\* check() has not been evaluated
NotEvaluated == {"-"}

\* no pointers resolved
NoHeads == [local |-> "-", upstream |-> "-", mergeBase |-> "-", symbolic |-> TRUE]

(***************************************************************************)
(* State                                                                   *)
(***************************************************************************)
VARIABLES
    variant,        \* which version of the program runs
    pc,             \* where the process is: an await it waits on, or a Terminal
    exitCode,       \* "running", "0" or "1"
    rlOpen,         \* the readline interface has not been closed
    lang,           \* selected language, NoLang before the selection
    strings,        \* the language of the texts the program shows (t)
    langTries,      \* answers given to the language prompt
    summary,        \* { added, modified, deleted } of the last status read
    diff,           \* the staged diff of the last read
    history,        \* the recent subjects of the last read
    userContext,    \* the answer to the context prompt
    prompt,         \* the request text built from the four above
    aiMsg,          \* the Draft: aiMsg / AI_MSG of the current scope
    passes,         \* calls of run()
    stageCalls,     \* `git add .` executed
    readCalls,      \* status / diff / log reads executed
    ctxPrompts,     \* context prompts answered
    genCalls,       \* generation calls issued
    firstReq,       \* the request of the first generation call
    lastReq,        \* the request of the latest generation call
    menuShown,      \* times the menu was printed
    editorLaunches, \* edit excursions started
    choices,        \* the menu choices made so far, in order
    commitCalls,    \* commit calls issued
    commitMsg,      \* the message of the latest commit call
    commitRel,      \* the branch relation at the time of that call
    commitOk,       \* "ok" / "failed": how git ended that call; "-" before
    edited,         \* what the editor left behind, when the last step was its exit
    event,          \* what the last step was
    flag,           \* the first command-line argument ("" when there is none)
    safetyChecks,   \* comparisons of the local and the upstream branch made
    gitMsg,         \* the message git received with the latest commit call
    editFiles,      \* gcg-edit-*.txt files that exist
    heads,          \* the pointers check() is given
    relation,       \* the relations whose rule holds of them, "-" before
    msgFilesWritten, \* gcg-msg-*.txt files written by commitWithMessage
    msgFilesRemoved, \* gcg-msg-*.txt files unlinked by commitWithMessage
    reqFiles,       \* gcg-prompt-*.txt files that exist
    applied,          \* a function applied on its own, and its arguments
    returned,         \* what it returned
    spinners,         \* interval timers of startSpinner that are active
    repo,             \* what the repository holds once `git add .` has run
    readOrder,        \* the order in which the reads of this pass completed
    genSettled        \* generation calls that have succeeded or failed

vars ==
    <<variant, pc, exitCode, rlOpen, lang, strings, langTries, summary, diff,
      history,
      userContext, prompt, aiMsg, passes, stageCalls, readCalls,
      ctxPrompts, genCalls, firstReq, lastReq, menuShown, editorLaunches,
      choices, commitCalls, commitMsg, commitRel, commitOk, edited, event,
      flag, safetyChecks, gitMsg, editFiles, heads, relation,
      msgFilesWritten, msgFilesRemoved, reqFiles, applied, returned, spinners,
      repo, readOrder, genSettled>>

\* what no step of a run changes: the version, the arguments, and the state
\* of the branch comparison, which no version under src/ evaluates
fixed == <<variant, flag, safetyChecks, heads, relation, applied, returned>>

gathered == <<summary, diff, history>>
captured ==
    <<lang, strings, langTries, summary, diff, history, userContext, prompt>>
generation == <<genCalls, firstReq, lastReq>>
commits ==
    <<commitCalls, commitMsg, commitRel, commitOk, gitMsg, msgFilesWritten,
      msgFilesRemoved>>
\* what only a new pass, the staging, the reads and the context prompt change
counters == <<passes, stageCalls, readCalls, ctxPrompts, repo, readOrder>>
menu == <<menuShown, editorLaunches, editFiles, choices>>

\* the state of a process that has just been started
RunInit ==
    /\ variant \in Variants
    /\ pc = RunEntry(variant, NoLang)
    /\ exitCode = "running"
    /\ rlOpen = TRUE
    /\ lang = NoLang
    /\ strings = StringsOf(variant, NoLang)
    /\ langTries = 0
    /\ summary = NoSummary
    /\ diff = ""
    /\ history = ""
    /\ userContext = ""
    /\ prompt = NoRequest
    /\ aiMsg = None
    /\ passes = 1
    /\ stageCalls = 0
    /\ readCalls = 0
    /\ ctxPrompts = 0
    /\ genCalls = 0
    /\ firstReq = NoRequest
    /\ lastReq = NoRequest
    /\ menuShown = 0
    /\ editorLaunches = 0
    /\ choices = <<>>
    /\ commitCalls = 0
    /\ commitMsg = None
    /\ commitRel = "-"
    /\ commitOk = "-"
    /\ edited = NoEdit
    /\ event = "Start"
    /\ flag \in IF variant = "aic" THEN Flags ELSE {""}
    /\ safetyChecks = 0
    /\ gitMsg = None
    /\ editFiles = 0
    /\ msgFilesWritten = 0
    /\ msgFilesRemoved = 0
    /\ reqFiles = 0
    /\ genSettled = 0
    /\ repo = NoRepo
    /\ readOrder = NoOrder
    /\ spinners = IF HasLanguagePrompt(variant) THEN 0 ELSE EntrySpinners(variant)

\* no function is applied on its own
NoInput ==
    [fn |-> "-", v |-> "-", codes |-> <<>>, chars |-> <<>>, lang |-> "-",
     history |-> "-", intent |-> Absent, diff |-> "-"]

NoOutput ==
    [fn |-> "-", summary |-> NoSummary, chars |-> <<>>, request |-> NoRequest]

Init ==
    /\ RunInit
    /\ heads = NoHeads
    /\ relation = NotEvaluated
    /\ applied = NoInput
    /\ returned = NoOutput

(***************************************************************************)
(* Building blocks of the actions                                          *)
(***************************************************************************)
\* the process stops in t: return from run(), process.exit, break, exit
Stop(t) ==
    /\ pc' = t
    /\ exitCode' = ExitStatus(variant, t)
    /\ rlOpen' = IF ClosesReadline(variant, t) THEN FALSE ELSE rlOpen
    /\ reqFiles' = IF RemovesRequestFile(variant, t) THEN 0 ELSE reqFiles
    /\ spinners' = SpinnersAfter(variant, t, spinners)

\* execAsync('gemini ...', prompt) / execPromise / $(gemini "$SYSTEM_PROMPT")
IssueGeneration(request) ==
    /\ genCalls < MaxGen
    /\ genCalls' = genCalls + 1
    /\ lastReq' = request
    /\ firstReq' = IF genCalls = 0 THEN request ELSE firstReq
    /\ reqFiles' = IF UsesRequestFile(variant) THEN 1 ELSE reqFiles
    /\ spinners' = spinners + GenerationSpinners(variant)

\* commitWithMessage(message) / execSync(`git commit -m ...`)
IssueCommit(message, rel, ok) ==
    /\ commitCalls' = commitCalls + 1
    /\ commitMsg' = message
    /\ commitRel' = rel
    /\ commitOk' = IF ok THEN "ok" ELSE "failed"
    /\ gitMsg' = HandedToGit(variant, message)
    /\ msgFilesWritten' =
          IF UsesMessageFile(variant) THEN msgFilesWritten + 1 ELSE msgFilesWritten
    /\ msgFilesRemoved' =
          IF RemovesMessageFile(variant, ok) THEN msgFilesRemoved + 1
          ELSE msgFilesRemoved
    /\ ok => ~GitRefuses(HandedToGit(variant, message))
    /\ Stop(AfterCommit(variant, ok))

\* back to the top of the menu loop without having ended the run
BackToLoopTop ==
    /\ pc' = LoopTop(variant)
    /\ UNCHANGED <<exitCode, rlOpen, commits, aiMsg>>
    /\ IF LoopTop(variant) = "Drafting"
          THEN IssueGeneration(prompt) /\ UNCHANGED menuShown
          ELSE menuShown' = menuShown + 1 /\ UNCHANGED <<generation, reqFiles, spinners>>

(***************************************************************************)
(* Actions: one per await / prompt / external call of the program          *)
(***************************************************************************)
\* the language prompt of run(selectedLang)
SelectLanguage ==
    /\ edited' = NoEdit
    /\ pc = "LangPrompt"
    /\ \E answer \in {"1", "2", "x"} :
         LET l == LangOf(variant, answer)
         IN  /\ langTries' = langTries + 1
             /\ IF l = NoLang
                   THEN /\ langTries + 1 < MaxLangTries
                        /\ event' = "LangInvalid"
                        /\ UNCHANGED <<pc, lang, strings, spinners>>
                   ELSE /\ lang' = l
                        /\ strings' = StringsOf(variant, l)
                        /\ spinners' = spinners + EntrySpinners(variant)
                        /\ pc' = "EnvCheck"
                        /\ event' = "LangChosen"
    /\ UNCHANGED <<fixed, genSettled, exitCode, rlOpen, summary, diff, history, userContext,
                   prompt, aiMsg, counters, generation, menu, commits,
                   reqFiles>>

\* gemini --version / command -v gemini
CheckGenerator ==
    /\ edited' = NoEdit
    /\ pc = "EnvCheck"
    /\ \E ok \in BOOLEAN :
         IF ok
            THEN /\ pc' = IF HandlesFlags(variant) THEN "FlagCheck" ELSE "GitCheck"
                 /\ event' = "GeneratorFound"
                 /\ UNCHANGED <<exitCode, rlOpen, reqFiles, spinners>>
            ELSE /\ Stop("EnvFailed")
                 /\ event' = "GeneratorMissing"
    /\ UNCHANGED <<fixed, genSettled, captured, aiMsg, counters, generation, menu,
                   commits>>

\* if [[ "$1" == "--update" ]]; then update_aic; exit 0; fi
\* (update_aic exits 0 itself after a successful download)
HandleFlag ==
    /\ edited' = NoEdit
    /\ pc = "FlagCheck"
    /\ IF IsUpdateFlag(flag)
          THEN /\ Stop("Updated")
               /\ event' = "UpdateFlag"
          ELSE /\ pc' = "GitCheck"
               /\ event' = "NoFlagHandled"
               /\ UNCHANGED <<exitCode, rlOpen, reqFiles, spinners>>
    /\ UNCHANGED <<fixed, genSettled, captured, aiMsg, counters, generation, menu, commits>>

\* git rev-parse --is-inside-work-tree
CheckRepository ==
    /\ edited' = NoEdit
    /\ pc = "GitCheck"
    /\ \E ok \in BOOLEAN :
         /\ event' = IF ok THEN "RepositoryFound" ELSE "NotARepository"
         /\ IF AfterRepositoryCheck(variant, ok) = "Stage"
               THEN pc' = "Stage" /\ UNCHANGED <<exitCode, rlOpen, reqFiles, spinners>>
               ELSE Stop(AfterRepositoryCheck(variant, ok))
    /\ UNCHANGED <<fixed, genSettled, captured, aiMsg, counters, generation, menu,
                   commits>>

\* git add .
StageAll ==
    /\ edited' = NoEdit
    /\ pc = "Stage"
    /\ stageCalls' = stageCalls + 1
    /\ \E ok \in BOOLEAN :
         IF ok \/ variant = "aic"
            THEN /\ pc' = "Read"
                 /\ event' = "Staged"
                 /\ \E snap \in Snapshots, h \in Histories :
                       repo' = [status |-> snap.status, diff |-> snap.diff,
                                history |-> h]
                 /\ UNCHANGED <<exitCode, rlOpen, reqFiles, spinners>>
            ELSE /\ Stop("Errored")
                 /\ event' = "StageFailed"
                 /\ UNCHANGED repo
    /\ UNCHANGED <<fixed, genSettled, captured, aiMsg, passes, readCalls, readOrder,
                   ctxPrompts, generation, menu, commits>>

\* status, staged diff and log, and the "nothing to commit" test
ReadRepository ==
    /\ edited' = NoEdit
    /\ pc = "Read"
    /\ readCalls' = readCalls + 1
    /\ \E order \in ReadOrders(variant), ok \in BOOLEAN :
         LET results == PromiseAll(ReadNames, Completions(order, repo))
             summ == IF variant = "aic" THEN NoSummary
                     ELSE results[1].summary
             d == results[2].text
             h == results[3].text
         IN  /\ readOrder' = order
             /\ IF ~ok /\ variant # "aic"
                   THEN /\ Stop("Errored")
                        /\ event' = "ReadFailed"
                        /\ UNCHANGED gathered
                ELSE IF NothingStaged(variant, summ, d = "")
                   THEN /\ Stop("NoChanges")
                        /\ event' = "NothingStaged"
                        /\ summary' = summ
                        /\ UNCHANGED <<diff, history>>
                ELSE /\ pc' = "ContextPrompt"
                     /\ event' = "Gathered"
                     /\ summary' = summ
                     /\ diff' = d
                     /\ history' = h
                     /\ spinners' = SpinnersAfter(variant, "ContextPrompt", spinners)
                     /\ UNCHANGED <<exitCode, rlOpen, reqFiles>>
    /\ UNCHANGED <<fixed, genSettled, lang, strings, langTries, userContext, prompt, aiMsg, passes,
                   stageCalls, ctxPrompts, repo, generation, menu, commits>>

\* the context prompt, the prompt template and the first generation call of
\* this run(); a question on a closed interface throws or never completes
ProvideContext ==
    /\ edited' = NoEdit
    /\ pc = "ContextPrompt"
    /\ IF rlOpen
          THEN \E c \in Contexts :
                 /\ userContext' = c
                 /\ ctxPrompts' = ctxPrompts + 1
                 /\ prompt' = BuildPrompt(variant, lang, history, c, diff)
                 /\ IssueGeneration(prompt')
                 /\ pc' = AfterIssue(variant)
                 /\ event' = "ContextGiven"
                 /\ UNCHANGED <<exitCode, rlOpen>>
          ELSE \E t \in {"PromptFailed", "Hung"} :
                 /\ Stop(t)
                 /\ event' = "QuestionOnClosedInterface"
                 /\ UNCHANGED <<userContext, ctxPrompts, prompt, generation>>
    /\ readOrder' = NoOrder
    /\ UNCHANGED <<fixed, genSettled, lang, strings, langTries, gathered, aiMsg, passes,
                   stageCalls, readCalls, repo, menu, commits>>

\* the generation call settles
GenerationSettles ==
    /\ edited' = NoEdit
    /\ pc = "Drafting"
    /\ \E raw \in RawOutputs, ok \in BOOLEAN :
         IF GenerationFailed(variant, ok, raw)
            THEN /\ event' = "GenerationFailed"
                 /\ UNCHANGED menuShown
                 /\ IF AfterGenerationFailure(variant) = "Drafting"
                       THEN /\ aiMsg' = GeneratedText(variant, raw)
                            /\ IssueGeneration(prompt)
                            /\ UNCHANGED <<pc, exitCode, rlOpen>>
                       ELSE /\ Stop(AfterGenerationFailure(variant))
                            /\ UNCHANGED <<aiMsg, generation>>
            ELSE /\ aiMsg' = GeneratedText(variant, raw)
                 /\ pc' = "MenuOpen"
                 /\ menuShown' = menuShown + 1
                 /\ event' = "GenerationSucceeded"
                 /\ spinners' = SpinnersAfter(variant, "MenuOpen", spinners)
                 /\ UNCHANGED <<exitCode, rlOpen, generation, reqFiles>>
    /\ genSettled' = genSettled + 1
    /\ UNCHANGED <<fixed, captured, counters, editorLaunches, editFiles, choices,
                   commits>>

\* a menu input is read
MenuInput(kind) ==
    /\ pc = "MenuOpen"
    /\ Len(choices) < MaxChoices
    /\ \E input \in MenuInputs : MenuChoiceOf(variant, input) = kind
    /\ choices' = Append(choices, kind)
    /\ edited' = NoEdit
    /\ event' = kind

\* case '1'
ChooseCommit ==
    /\ MenuInput("Commit")
    /\ \E rel \in BranchRelations, ok \in BOOLEAN :
         IssueCommit(MessageToCommit(aiMsg), rel, ok)
    /\ UNCHANGED <<fixed, genSettled, captured, aiMsg, counters, generation,
                   menuShown, editorLaunches, editFiles>>

\* case '2'
ChooseRegenerate ==
    /\ MenuInput("Regenerate")
    /\ pc' = IF RegenerateTarget(variant) = "EnvCheck"
                THEN RunEntry(variant, LangOnRerun(variant, lang))
                ELSE RegenerateTarget(variant)
    /\ rlOpen' = IF ClosesReadlineOnRegenerate(variant) THEN FALSE ELSE rlOpen
    /\ aiMsg' = IF variant = "aic" THEN aiMsg ELSE None
    /\ IF RegenerateTarget(variant) = "Drafting"
          THEN /\ IssueGeneration(prompt)
               /\ UNCHANGED <<passes, gathered, userContext, prompt, repo, lang,
                              strings>>
          ELSE \* run(lang): a new scope, whose variables are not yet set
               /\ passes' = passes + 1
               /\ lang' = LangOnRerun(variant, lang)
               /\ strings' = StringsOf(variant, LangOnRerun(variant, lang))
               /\ summary' = NoSummary
               /\ diff' = ""
               /\ history' = ""
               /\ userContext' = ""
               /\ prompt' = NoRequest
               /\ repo' = NoRepo
               /\ spinners' =
                     IF RunEntry(variant, LangOnRerun(variant, lang)) = "LangPrompt"
                        THEN spinners
                        ELSE spinners + EntrySpinners(variant)
               /\ UNCHANGED <<generation, reqFiles>>
    /\ UNCHANGED <<fixed, genSettled, exitCode, langTries, stageCalls, readCalls,
                   readOrder, ctxPrompts, menuShown, editorLaunches, editFiles, commits>>

\* case '3': the editor is started, resp. the edit prompt is shown
ChooseEdit ==
    /\ MenuInput("Edit")
    /\ pc' = "Editing"
    /\ editorLaunches' = editorLaunches + 1
    /\ editFiles' = IF UsesEditFile(variant) THEN editFiles + 1 ELSE editFiles
    /\ UNCHANGED <<fixed, genSettled, exitCode, rlOpen, captured, aiMsg, counters,
                   generation, menuShown, commits, reqFiles, spinners>>

\* the editor exits (child.on('exit')), could not be started, or the line of
\* the edit prompt is read
EditorExits ==
    /\ pc = "Editing"
    /\ \E content \in EditedTexts \cup {aiMsg}, mtimeAdvanced \in BOOLEAN,
          launched \in BOOLEAN, rel \in BranchRelations, ok \in BOOLEAN :
         LET editedMsg == editInEditor(variant, content, mtimeAdvanced)
         IN  /\ ~launched => variant # "aic" /\ content = aiMsg /\ ~mtimeAdvanced
             /\ edited' = [content |-> content, mtimeAdvanced |-> mtimeAdvanced,
                           launched |-> launched]
             /\ editFiles' = IF RemovesEditFile(variant, launched)
                                THEN editFiles - 1 ELSE editFiles
             /\ IF ~launched /\ EditorLaunchFailureIsFatal(variant)
                   THEN /\ Stop("Crashed")
                        /\ event' = "EditorNotStarted"
                        /\ UNCHANGED <<aiMsg, generation, menuShown, commits>>
                ELSE IF Truthy(editedMsg)
                   THEN /\ IssueCommit(MessageToCommit(editedMsg), rel, ok)
                        /\ event' = "EditCommitted"
                        /\ UNCHANGED <<aiMsg, generation, menuShown>>
                ELSE /\ BackToLoopTop
                     /\ event' = "EditAborted"
    /\ prompt' = prompt
    /\ UNCHANGED <<fixed, genSettled, lang, strings, langTries, gathered, userContext, counters, editorLaunches, choices>>

\* case '4' (case 5 of the script)
ChooseCancel ==
    /\ MenuInput("Cancel")
    /\ Stop(AfterCancel(variant))
    /\ UNCHANGED <<fixed, genSettled, captured, aiMsg, counters, generation,
                   menuShown, editorLaunches, editFiles, commits>>

\* default:
ChooseInvalid ==
    /\ MenuInput("Invalid")
    /\ BackToLoopTop
    /\ prompt' = prompt
    /\ UNCHANGED <<fixed, genSettled, lang, strings, langTries, gathered, userContext, counters,
                   editorLaunches, editFiles>>

\* case 4 of the script: update_aic; break
ChooseUpdate ==
    /\ MenuInput("Update")
    /\ Stop("Updated")
    /\ UNCHANGED <<fixed, genSettled, captured, aiMsg, counters, generation,
                   menuShown, editorLaunches, editFiles, commits>>

\* what happens besides while a generation call is in flight
besides ==
    <<fixed, genSettled, pc, exitCode, rlOpen, captured, aiMsg, counters,
      generation, menu, commits, edited, reqFiles, spinners>>

\* the callback of setInterval writes the next frame
SpinnerTick ==
    /\ pc = "Drafting"
    /\ spinners > 0
    /\ event # "SpinnerTick"
    /\ event' = "SpinnerTick"
    /\ UNCHANGED besides

\* a line is typed while no question is pending: readline emits 'line', which
\* has no listener, and the line is gone; the terminal of the script keeps
\* it for the next read
LineTyped ==
    /\ pc = "Drafting"
    /\ event # "LineTyped"
    /\ event' = "LineTyped"
    /\ UNCHANGED besides

Next ==
    \/ SelectLanguage
    \/ CheckGenerator
    \/ HandleFlag
    \/ CheckRepository
    \/ StageAll
    \/ ReadRepository
    \/ ProvideContext
    \/ GenerationSettles
    \/ ChooseCommit
    \/ ChooseRegenerate
    \/ ChooseEdit
    \/ EditorExits
    \/ ChooseCancel
    \/ ChooseInvalid
    \/ ChooseUpdate
    \/ SpinnerTick
    \/ LineTyped

Spec == Init /\ [][Next]_vars

(***************************************************************************)
(* The branch comparison on its own: any pointers, one evaluation          *)
(***************************************************************************)
GuardInit ==
    /\ RunInit
    /\ variant = "p004"
    /\ flag = ""
    /\ heads \in HeadInputs
    /\ relation = NotEvaluated
    /\ applied = NoInput
    /\ returned = NoOutput

\* check() is evaluated
Classify ==
    /\ relation = NotEvaluated
    /\ relation' = check(heads)
    /\ UNCHANGED <<variant, pc, exitCode, rlOpen, captured, aiMsg, counters,
                   generation, menu, commits, edited, event, flag, safetyChecks,
                   heads, reqFiles, applied, returned, spinners, genSettled>>

GuardNext == Classify

GuardSpec == GuardInit /\ [][GuardNext]_vars

(***************************************************************************)
(* The pure functions on their own: any arguments, one application         *)
(***************************************************************************)
\* the characters a porcelain status code is made of here
StatusChars == {" ", "?", "A", "M", "D", "R"}

AnyCodes == { <<x, y>> : x \in StatusChars, y \in StatusChars }

RECURSIVE LinesUpTo(_)
LinesUpTo(n) ==
    IF n = 0 THEN { <<>> }
    ELSE LET shorter == LinesUpTo(n - 1)
         IN  shorter \cup { <<c>> \o l : c \in AnyCodes,
                                          l \in { k \in shorter : Len(k) = n - 1 } }

\* a diff of n characters
DiffOf(n, period) == [i \in 1..n |-> IF i % period = 0 THEN "+" ELSE "a"]

SummaryInputs ==
    { [NoInput EXCEPT !.fn = "getChangeSummary", !.v = v, !.codes = l] :
         v \in {"p004", "index"}, l \in LinesUpTo(MaxLines) }

BudgetInputs ==
    { [NoInput EXCEPT !.fn = "truncate", !.v = v, !.chars = DiffOf(n, period)] :
         v \in Variants, n \in (DiffBudget - MaxOver)..(DiffBudget + MaxOver),
         period \in {2, 3} }

RequestInputs ==
    { [NoInput EXCEPT !.fn = "prompt", !.v = v, !.lang = l, !.history = h,
                      !.intent = i, !.diff = d] :
         v \in Variants, l \in {"en", "ko"}, h \in Histories, i \in Intents,
         d \in {"d1", "d2"} }

PureInit ==
    /\ RunInit
    /\ variant = "p004"
    /\ flag = ""
    /\ heads = NoHeads
    /\ relation = NotEvaluated
    /\ applied \in SummaryInputs \cup BudgetInputs \cup RequestInputs
    /\ returned = NoOutput

pureRest ==
    <<variant, pc, exitCode, rlOpen, captured, aiMsg, counters, generation,
      menu, commits, edited, event, flag, safetyChecks, heads, relation,
      reqFiles, applied, spinners, genSettled>>

\* getChangeSummary() on the lines of `git status --porcelain`
ApplySummary ==
    /\ applied.fn = "getChangeSummary" /\ returned = NoOutput
    /\ returned' = [NoOutput EXCEPT !.fn = applied.fn,
                                  !.summary = getChangeSummary(applied.codes)]
    /\ UNCHANGED pureRest

\* the truncation of the staged diff
ApplyBudget ==
    /\ applied.fn = "truncate" /\ returned = NoOutput
    /\ returned' = [NoOutput EXCEPT !.fn = applied.fn,
                                  !.chars = BudgetedDiff(applied.v, applied.chars)]
    /\ UNCHANGED pureRest

\* the prompt template
ApplyRequest ==
    /\ applied.fn = "prompt" /\ returned = NoOutput
    /\ returned' = [NoOutput EXCEPT !.fn = applied.fn,
                                  !.request = BuildRequest(applied.v, applied.lang,
                                                applied.history, applied.intent,
                                                applied.diff)]
    /\ UNCHANGED pureRest

PureNext == ApplySummary \/ ApplyBudget \/ ApplyRequest

PureSpec == PureInit /\ [][PureNext]_vars

(***************************************************************************)
(* Type invariant                                                          *)
(***************************************************************************)
TypeOK ==
    /\ variant \in Variants
    /\ pc \in Terminal \cup {"LangPrompt", "EnvCheck", "FlagCheck", "GitCheck", "Stage", "Read",
                             "ContextPrompt", "Drafting", "MenuOpen", "Editing"}
    /\ exitCode \in {"running", "0", "1"}
    /\ rlOpen \in BOOLEAN
    /\ genCalls \in 0..MaxGen
    /\ Len(choices) <= MaxChoices
    /\ commitCalls \in Nat
    /\ reqFiles \in {0, 1}
    /\ genSettled \in 0..MaxGen
    /\ strings \in {NoLang, "en", "ko"}
    /\ spinners \in 0..2

(***************************************************************************)
(* Properties                                                              *)
(***************************************************************************)
Last(seq) == seq[Len(seq)]

\* the editor was left without saving: same content, same modification time
Unsaved(e, draft) == e.content = draft /\ ~e.mtimeAdvanced

\* the content was emptied (blank after trim)
Emptied(e) == Trim(e.content) = <<>>

\* the edit produced non-empty changed content
ChangedNonEmpty(e, draft) == e.content # draft /\ Trim(e.content) # <<>>

\* the step is the exit of the editor (the end of the edit prompt)
EditorExitStep == pc = "Editing" /\ pc' # "Editing"

ThreeRegeneratesThenCancel == <<"Regenerate", "Regenerate", "Regenerate", "Cancel">>

\* the two versions most statements about run() are written against:
\* run() of part_004 and run() / generateAndSelect() of index.js
RunVersions == {"p004", "index"}

C2_EndsOnlyByCommitOrCancel ==
    (variant \in RunVersions /\ menuShown > 0 /\ pc \in Terminal)
       => pc \in {"Committed", "Cancelled"}

\* what a Regenerate can end in, per version: the failure of the generation
\* call, and for the versions that call run() again everything run() can end in
RegenerateEndings(v) ==
    CASE v = "index" -> {"GenFailed"}
      [] v = "p005" -> {"EnvFailed", "Errored", "NoChanges", "PromptFailed", "Hung"}
      [] v \in {"p006", "p004"} -> {"EnvFailed", "Errored", "NoChanges", "GenFailed"}
      [] OTHER -> {}

\* C2 amended: once the menu has been shown, an invalid input or an aborted
\* edit never ends the process; it ends only by a commit call (succeeded or
\* failed), by Cancel, by Update (script), by an editor that cannot be started
\* (spawn without shell), or by the failure of what the last Regenerate re-ran.
C2_EndsOnlyByCommitCancelOrFailedRerun ==
    /\ []( (menuShown > 0 /\ pc \in Terminal) =>
             \/ pc \in {"Committed", "CommitFailed"} /\ commitCalls = 1
                   /\ event \in {"Commit", "EditCommitted"}
             \/ pc = "Cancelled" /\ Last(choices) = "Cancel"
             \/ pc = "Updated" /\ variant = "aic" /\ Last(choices) = "Update"
             \/ pc = "Crashed" /\ EditorLaunchFailureIsFatal(variant)
                   /\ Last(choices) = "Edit" /\ ~edited.launched
             \/ pc \in RegenerateEndings(variant) /\ Last(choices) = "Regenerate" )
    /\ [][ event' \in {"Invalid", "EditAborted"} => pc' \notin Terminal ]_vars

C2_Witness ==
    /\ pc = "GenFailed" /\ menuShown > 0 /\ Last(choices) = "Regenerate"
    /\ variant = "p004"

\* C3, for part_004: no commit call is issued while the branch relation is
\* RemoteAhead, Diverged or Detached.
C3_NoCommitWhileBlocked ==
    (variant = "p004" /\ commitCalls > 0) => commitRel \notin BlockingRelations

\* C4: in the node versions a failed generation call (the first one or one
\* caused by Regenerate) ends the run in the failure state: the menu is not
\* shown for it, the Draft is not set, no commit call is issued by the step
\* and none was issued before.
C4_FailedGenerationEndsRun ==
    /\ [][ (event' = "GenerationFailed" /\ variant \in NodeVariants)
             => /\ pc' = "GenFailed"
                /\ menuShown' = menuShown
                /\ aiMsg' = None
                /\ commitCalls' = 0
                /\ exitCode' # "0" ]_vars
    /\ [](pc = "GenFailed" => commitCalls = 0 /\ aiMsg = None)

C4_Witness ==
    /\ pc = "GenFailed" /\ event = "GenerationFailed" /\ variant = "index"
    /\ choices = <<"Regenerate">> /\ genCalls = 2 /\ menuShown = 1

\* C5: when the test for "nothing staged" succeeds (all-zero summary in the
\* node versions, empty staged diff in the script) the run ends at once: the
\* context prompt is not shown, no request is built, no generation call and
\* no commit call is issued by this run(); and a run that goes on to the
\* context prompt has a summary that is not all-zero.
C5_NothingStagedEndsBeforeRequest ==
    /\ [][ event' = "NothingStaged"
             => /\ pc' = "NoChanges"
                /\ UNCHANGED <<ctxPrompts, prompt, genCalls, lastReq, commitCalls>> ]_vars
    /\ [][ (pc = "Read" /\ variant \in NodeVariants /\ summary' = NoSummary)
             => pc' \in {"NoChanges", "Errored"} ]_vars
    /\ [](pc = "NoChanges" => prompt = NoRequest /\ commitCalls = 0)
    /\ [](pc = "NoChanges" /\ passes = 1 => ctxPrompts = 0 /\ genCalls = 0)

C5_Witness ==
    /\ pc = "NoChanges" /\ event = "NothingStaged" /\ variant = "p004"
    /\ summary = NoSummary /\ genCalls = 0 /\ ctxPrompts = 0 /\ commitCalls = 0

\* C6, for part_004 and index.js: when the editor has run and exits without
\* saving, or with the content emptied, the Draft is unchanged, no commit call
\* is issued and the menu is shown again.
C6_AbortedEditChangesNothing ==
    [][ (EditorExitStep /\ variant \in RunVersions /\ edited'.launched
           /\ (Unsaved(edited', aiMsg) \/ Emptied(edited')))
          => /\ aiMsg' = aiMsg
             /\ commitCalls' = commitCalls
             /\ pc' = "MenuOpen" ]_vars

C8_InvalidInputChangesNothing ==
    [][ event' = "Invalid"
          => /\ aiMsg' = aiMsg
             /\ genCalls' = genCalls
             /\ commitCalls' = commitCalls
             /\ editorLaunches' = editorLaunches
             /\ pc' = "MenuOpen"
             /\ menuShown' = menuShown + 1 ]_vars

\* C9 as stated, for part_004 and index.js: three Regenerate choices in a
\* row and then Cancel: three generation calls, no commit call, exit status 0.
C9_ThreeGenerationCalls ==
    (variant \in RunVersions /\ pc = "Cancelled"
        /\ choices = ThreeRegeneratesThenCancel)
       => genCalls = 3 /\ commitCalls = 0 /\ exitCode = "0"

\* C9 amended: three Regenerate choices in a row and then Cancel: four
\* generation calls that produced a Draft (the first one and one per
\* Regenerate) and, in the node versions, four generation calls in all; no
\* commit call; exit status 0.
C9_FourGenerationCalls ==
    (pc = "Cancelled" /\ choices = ThreeRegeneratesThenCancel)
       => /\ menuShown = 4
          /\ genCalls >= 4
          /\ (variant \in NodeVariants => genCalls = 4)
          /\ commitCalls = 0
          /\ exitCode = "0"

C9_Witness ==
    /\ pc = "Cancelled" /\ choices = ThreeRegeneratesThenCancel
    /\ variant = "p004" /\ genCalls = 4 /\ passes = 4 /\ exitCode = "0"

\* C10 as stated, for part_004 and index.js: Regenerate only calls the
\* generator again: nothing is staged or read a second time, no second context
\* prompt, no language prompt after a menu choice, and every request carries
\* the history and the intent of the first one.
C10_RegenerateOnlyCallsGenerator ==
    variant \in RunVersions =>
       /\ stageCalls <= 1 /\ readCalls <= 1 /\ ctxPrompts <= 1
       /\ (choices # <<>> => pc # "LangPrompt")
       /\ (genCalls > 0 => /\ lastReq.history = firstReq.history
                           /\ lastReq.intent = firstReq.intent)

\* the versions whose Regenerate is `return run(...)`
RerunVariants == {"p005", "p006", "p004"}

\* C10 amended: Regenerate never leads to the language prompt and never
\* changes the language.  In index.js and in the script it only calls the
\* generator again, with the request built at the start.  In part_004, 005
\* and 006 it calls run() again: no generation call is issued by the choice
\* itself, and every run() stages, reads and (reaching the menu) has asked for
\* the context again, so a later request carries what that run() read and asked.
C10_RegenerateRerunsOrRecalls ==
    /\ [][ event' = "Regenerate"
             => /\ lang' = lang
                /\ IF variant \in RerunVariants
                      THEN /\ pc' = "EnvCheck"
                           /\ passes' = passes + 1
                           /\ genCalls' = genCalls
                      ELSE /\ pc' = "Drafting"
                           /\ genCalls' = genCalls + 1
                           /\ lastReq' = firstReq
                           /\ UNCHANGED <<stageCalls, readCalls, ctxPrompts>> ]_vars
    /\ [](choices # <<>> => pc # "LangPrompt")
    /\ [](genCalls > 0 => lastReq.lang = firstReq.lang /\ lastReq.lang = lang)
    /\ [](variant \notin RerunVariants =>
             /\ stageCalls <= 1 /\ readCalls <= 1 /\ ctxPrompts <= 1
             /\ lastReq = firstReq)
    /\ [](variant \in RerunVariants /\ pc \in {"Drafting", "MenuOpen", "Editing"} =>
             /\ stageCalls = passes /\ readCalls = passes /\ ctxPrompts = passes
             /\ genCalls = passes
             /\ lastReq = BuildPrompt(variant, lang, history, userContext, diff))

C10_Witness ==
    /\ variant = "p004" /\ pc = "MenuOpen" /\ passes = 2 /\ stageCalls = 2
    /\ ctxPrompts = 2 /\ lastReq.history # firstReq.history
    /\ lastReq.intent # firstReq.intent /\ lastReq.lang = firstReq.lang

\* C11: a missing generator or a directory that is not a repository ends the
\* run at once with exit status 1: that run() stages nothing, reads nothing,
\* asks nothing, issues no generation call and no commit call; and stage-all
\* is executed only in the step that follows a passed repository check, which
\* itself is made only after a passed generator check.
C11_PreconditionFailureBeforeStaging ==
    /\ [][ event' \in {"GeneratorMissing", "NotARepository"}
             => /\ pc' = "EnvFailed"
                /\ exitCode' = "1"
                /\ UNCHANGED <<stageCalls, readCalls, ctxPrompts, genCalls,
                               commitCalls, menuShown>> ]_vars
    /\ [](pc = "EnvFailed" =>
             /\ stageCalls = passes - 1 /\ readCalls = passes - 1
             /\ ctxPrompts <= passes - 1 /\ genCalls <= passes - 1
             /\ commitCalls = 0)
    /\ [][ stageCalls' # stageCalls
             => pc = "Stage" /\ event = "RepositoryFound" ]_vars
    /\ [][ pc' = "Stage" => pc = "GitCheck" /\ event' = "RepositoryFound" ]_vars
    /\ [][ pc' = "GitCheck"
             => \/ pc = "EnvCheck" /\ event' = "GeneratorFound"
                \/ pc = "FlagCheck" /\ event = "GeneratorFound" ]_vars
    /\ [](stageCalls <= passes /\ readCalls <= stageCalls)

C11_Witness ==
    /\ pc = "EnvFailed" /\ event = "NotARepository" /\ variant = "p004"
    /\ passes = 2 /\ stageCalls = 1 /\ readCalls = 1 /\ exitCode = "1"

\* the versions C12 is written against: part_004, index.js and the script
ExitVersions == {"p004", "index", "aic"}

\* C12, for part_004, index.js and the script (the update paths of the
\* script left aside): the exit status is 0 exactly when the run ended by a
\* commit, by Cancel or by "nothing to commit", and it is 1 when the
\* generator is missing, the directory is no repository, a generation call
\* failed or the commit call failed.
C12_ExitStatusZeroIffCommitCancelOrNothing ==
    (variant \in ExitVersions /\ pc \in Terminal \ {"Updated"}) =>
       /\ exitCode = "0" <=>
             \/ pc = "Committed" /\ commitOk = "ok"
             \/ pc = "Cancelled"
             \/ pc = "NoChanges"
       /\ (pc \in {"EnvFailed", "GenFailed", "CommitFailed"} \/ commitOk = "failed")
             => exitCode = "1"

\* C13: a run that ends by Cancel has issued no commit call and nothing
\* reached git, whatever was chosen before; Cancel itself issues none.
C13_CancelMeansNoCommit ==
    /\ [](pc = "Cancelled" =>
             /\ commitCalls = 0 /\ gitMsg = None /\ commitOk = "-"
             /\ Last(choices) = "Cancel")
    /\ [][ event' = "Cancel"
             => pc' = "Cancelled" /\ commitCalls' = 0 /\ exitCode' = "0" ]_vars

C13_Witness ==
    /\ pc = "Cancelled" /\ variant = "p004" /\ commitCalls = 0
    /\ choices = <<"Invalid", "Edit", "Regenerate", "Cancel">>

\* C14, for part_004: a run that issues a commit call has compared the local
\* and the upstream branch at least twice (before staging, and again between
\* the choice of Commit and the commit call).
C14_SafetyCheckedTwiceBeforeCommit ==
    (variant = "p004" /\ commitCalls > 0) => safetyChecks >= 2

\* the versions C15 is written against: commitWithMessage of part_004 and
\* the `git commit -m` of index.js and part_005
CommitVersions == {"p004", "index", "p005"}

\* C15, for part_004, index.js and part_005: the message git receives with a
\* commit call equals the chosen message character for character.
C15_MessageReachesGitUnchanged ==
    (variant \in CommitVersions /\ commitCalls > 0) => gitMsg = commitMsg

\* C16, for part_004, index.js and the script: a generation result that is
\* blank after trimming never becomes the Draft the menu is shown for, and no
\* commit call carries a blank message.
C16_BlankGenerationIsFailure ==
    variant \in ExitVersions =>
       /\ (pc \in {"MenuOpen", "Editing"} => Trim(aiMsg) # <<>>)
       /\ (commitCalls > 0 => Trim(commitMsg) # <<>>)

\* C17: every generation call is issued by the step that answers the context
\* prompt of a run() (its initial call) or by the step of a Regenerate choice.
C17_NoAutomaticRetry ==
    [][ genCalls' # genCalls => event' \in {"ContextGiven", "Regenerate"} ]_vars

\* C19: a process started as `aic --uninstall` stages nothing, issues no
\* generation call, shows no menu and issues no commit call.
C19_UninstallTouchesNothing ==
    flag = "--uninstall" =>
       /\ stageCalls = 0 /\ genCalls = 0 /\ menuShown = 0 /\ commitCalls = 0

\* C20, for part_004 and index.js: outside an edit excursion no edit file
\* exists, however the excursion ended.
C20_NoEditFileRemains ==
    (variant \in RunVersions /\ pc # "Editing") => editFiles = 0

RulesOverlap(h) ==
    /\ h.upstream # "absent"
    /\ \/ ~h.symbolic
       \/ h.local = h.upstream /\ h.local # h.mergeBase

C21_MessageFileRemovedOnEveryPath ==
    /\ [](variant = "p004" => msgFilesRemoved = msgFilesWritten)
    /\ [][ (variant = "p004" /\ commitCalls' = commitCalls + 1)
             => /\ msgFilesWritten' = msgFilesWritten + 1
                /\ msgFilesRemoved' = msgFilesWritten' ]_vars

C21_Witness ==
    /\ variant = "p004" /\ pc = "CommitFailed" /\ commitOk = "failed"
    /\ msgFilesWritten = 1 /\ msgFilesRemoved = 1 /\ exitCode = "1"

\* C22: whenever a run that wrote a generation-request file has ended (by a
\* commit, a cancel, a failed generation or an unexpected error), no request
\* file remains.
C22_NoRequestFileRemains ==
    (UsesRequestFile(variant) /\ pc \in Terminal) => reqFiles = 0

\* C23, for part_004 and index.js: when the editor has run and exits, the
\* edit returns the trimmed content of the file exactly when the modification
\* time advanced and the trimmed content is non-empty, and nothing otherwise.
C23_EditReturnsContentIffSavedAndNonEmpty ==
    [][ (EditorExitStep /\ variant \in RunVersions /\ edited'.launched)
          => editInEditor(variant, edited'.content, edited'.mtimeAdvanced)
               = IF edited'.mtimeAdvanced /\ Trim(edited'.content) # <<>>
                    THEN Trim(edited'.content)
                    ELSE None ]_vars

(***************************************************************************)
(* The pure functions                                                      *)
(***************************************************************************)
\* the lines of a status whose code satisfies P
LinesWhere(codes, P(_)) == Cardinality({ i \in 1..Len(codes) : P(codes[i]) })

HasAdded(s) == Includes(s, "?") \/ Includes(s, "A")
HasModified(s) == Includes(s, "M")
HasDeleted(s) == Includes(s, "D")
OnlyModified(s) == HasModified(s) /\ ~HasAdded(s)
OnlyDeleted(s) == HasDeleted(s) /\ ~HasModified(s) /\ ~HasAdded(s)

\* C24 as stated: the summary counts a path in every bucket whose marker its
\* code contains, so a code with two markers raises two counters.
C24_CountedInEveryMatchingBucket ==
    returned.fn = "getChangeSummary" =>
       returned.summary =
          [added |-> LinesWhere(applied.codes, HasAdded),
           modified |-> LinesWhere(applied.codes, HasModified),
           deleted |-> LinesWhere(applied.codes, HasDeleted)]

\* C24 amended: the summary counts a path in the first bucket whose marker
\* its code contains, in the order added ('?' or 'A'), modified ('M'),
\* deleted ('D'), and in no other: a code with two markers raises one counter.
C24_CountedInFirstMatchingBucket ==
    returned.fn = "getChangeSummary" =>
       returned.summary =
          [added |-> LinesWhere(applied.codes, HasAdded),
           modified |-> LinesWhere(applied.codes, OnlyModified),
           deleted |-> LinesWhere(applied.codes, OnlyDeleted)]

C24_Witness ==
    /\ returned.fn = "getChangeSummary"
    /\ applied.codes = << <<"A", "M">>, <<"M", "D">> >>
    /\ returned.summary = [added |-> 1, modified |-> 1, deleted |-> 0]

\* C25, for the versions that truncate: a diff of at most 3000 characters is
\* returned as it is; a longer one is returned as its first 3000 characters
\* followed by the truncation marker and nothing else, so its length is
\* 3000 + the length of the marker.
C25_BudgetIsIdentityOrCutPlusMarker ==
    (returned.fn = "truncate" /\ applied.v \in NodeVariants) =>
       LET d == applied.chars
           r == returned.chars
       IN  /\ Len(d) <= DiffBudget => r = d
           /\ Len(d) > DiffBudget =>
                 /\ Len(r) = DiffBudget + Len(TruncationMarker)
                 /\ \A i \in 1..DiffBudget : r[i] = d[i]
                 /\ \A i \in 1..Len(TruncationMarker) :
                       r[DiffBudget + i] = TruncationMarker[i]

C25_Witness ==
    /\ returned.fn = "truncate" /\ applied.v = "index"
    /\ Len(applied.chars) = DiffBudget + 1
    /\ Len(returned.chars) = DiffBudget + Len(TruncationMarker)
    /\ returned.chars[DiffBudget] = applied.chars[DiffBudget]
    /\ returned.chars[DiffBudget + 1] = "\n"

\* the same request with another intent
RequestWith(intent) ==
    BuildRequest(applied.v, applied.lang, applied.history, intent, applied.diff)

\* C26 as stated: the request built for an absent intent differs from the
\* request built for the empty string with the other inputs equal.
C26_AbsentAndEmptyIntentDiffer ==
    (returned.fn = "prompt" /\ applied.intent = Absent) =>
       returned.request # RequestWith(Given(""))

\* C26 amended: the request built for an absent intent is the same as the
\* one built for the empty string with the other inputs equal: both carry
\* the placeholder ('None', in the script the default sentence); a non-empty
\* intent is carried as it is and gives another request than these two.
C26_AbsentAndEmptyIntentRenderPlaceholder ==
    returned.fn = "prompt" =>
       /\ applied.intent \in {Absent, Given("")} =>
             /\ returned.request = RequestWith(Given(""))
             /\ returned.request = RequestWith(Absent)
             /\ returned.request.intent
                   = IF applied.v = "aic" THEN "Analyze the diff" ELSE "None"
       /\ applied.intent \notin {Absent, Given("")} =>
             /\ returned.request.intent = applied.intent[1]
             /\ returned.request # RequestWith(Absent)
             /\ returned.request # RequestWith(Given(""))

C26_Witness ==
    /\ returned.fn = "prompt" /\ applied.v = "p004" /\ applied.intent = Absent
    /\ returned.request.intent = "None"

\* the places where the program waits for the user
UserWaits == {"LangPrompt", "ContextPrompt", "MenuOpen", "Editing"}

\* the places where it waits for the environment checks, the staging and
\* the reads, or for a generation call
LongOperations == {"EnvCheck", "GitCheck", "Stage", "Read", "Drafting"}

\* C27: a spinner timer is active only while the environment checks, the
\* staging and the reads, or a generation call are pending; a generation call
\* of a node version runs under exactly one, which is stopped when the call
\* settles, on success and on failure; none is active while the program waits
\* for the user or has stopped.
C27_SpinnerOnlyWhileLongOperationPending ==
    /\ [](spinners > 0 => pc \in LongOperations)
    /\ [](pc \in UserWaits \cup Terminal => spinners = 0)
    /\ []((pc = "Drafting" /\ variant \in NodeVariants) => spinners = 1)
    /\ [][ (pc = "Drafting" /\ variant \in NodeVariants /\ pc' # "Drafting")
             => spinners' = 0 ]_vars

C27_Witness ==
    /\ variant = "index" /\ pc = "GenFailed" /\ event = "GenerationFailed"
    /\ exitCode = "running" /\ spinners = 0 /\ genCalls = 2

\* C28: the status, diff and log reads of a pass are made after its
\* `git add .` has returned; they leave the repository as they found it; and
\* the summary, the diff and the history the run goes on with are those of the
\* staged state, in whatever order the reads completed.
C28_ReadsAfterStagingAndOrderIndependent ==
    /\ [](readCalls <= stageCalls)
    /\ [][ readCalls' = readCalls + 1
             => /\ pc = "Read" /\ stageCalls = passes
                /\ repo' = repo
                /\ readOrder' \in ReadOrders(variant)
                /\ pc' = "ContextPrompt"
                      => /\ variant # "aic"
                            => summary' = getChangeSummary(repo.status)
                         /\ diff' = repo.diff
                         /\ history' = repo.history ]_vars

C28_Witness ==
    /\ variant = "p004" /\ pc = "ContextPrompt" /\ event = "Gathered"
    /\ readOrder = <<"log", "diff", "status">>
    /\ repo = [status |-> << <<"M", " ">> >>, diff |-> "d1", history |-> "h2"]
    /\ summary = [added |-> 0, modified |-> 1, deleted |-> 0]
    /\ diff = "d1" /\ history = "h2"

\* C29: at most one generation call is in flight, and exactly while the run
\* waits for it; while it is in flight no menu choice is taken, no commit and
\* no editor is started and the call is not given up: besides spinner frames
\* and typed lines, which change nothing, the next step is the success or
\* the failure of that call.
C29_OneGenerationInFlightUntilSettled ==
    /\ [](genSettled <= genCalls /\ genCalls <= genSettled + 1)
    /\ [](pc = "Drafting" <=> genCalls = genSettled + 1)
    /\ [][ pc = "Drafting"
             => /\ choices' = choices
                /\ commitCalls' = commitCalls
                /\ editorLaunches' = editorLaunches
                /\ \/ /\ event' \in {"SpinnerTick", "LineTyped"}
                      /\ UNCHANGED <<pc, aiMsg, genCalls, genSettled, lastReq>>
                   \/ /\ event' \in {"GenerationSucceeded", "GenerationFailed"}
                      /\ genSettled' = genSettled + 1 ]_vars

C29_Witness ==
    /\ variant = "p004" /\ pc = "Drafting" /\ event = "LineTyped"
    /\ genCalls = 1 /\ genSettled = 0 /\ choices = <<>> /\ spinners = 1

\* C30, for the versions that ask for a language (part_004, part_006): the
\* language is chosen at the language prompt of the first run() and never
\* changes afterwards; no later run() shows the language prompt; and from the
\* choice on every request and the texts shown carry that language.
C30_LanguageChosenOnceAtStartup ==
    /\ [][ lang # NoLang => lang' = lang ]_vars
    /\ [][ lang' # lang
             => /\ pc = "LangPrompt" /\ passes = 1 /\ genCalls = 0
                /\ choices = <<>> ]_vars
    /\ [](passes > 1 => pc # "LangPrompt")
    /\ []((HasLanguagePrompt(variant) /\ pc # "LangPrompt")
            => lang \in {"en", "ko"} /\ strings = lang)
    /\ []((HasLanguagePrompt(variant) /\ genCalls > 0)
            => lastReq.lang = lang /\ firstReq.lang = lang)

C30_Witness ==
    /\ variant = "p004" /\ pc = "MenuOpen" /\ passes = 3
    /\ choices = <<"Regenerate", "Regenerate">>
    /\ lang = "ko" /\ strings = "ko" /\ lastReq.lang = "ko" /\ langTries = 1

\* the places where the program asks the user a question with rl.question
QuestionPlaces == {"LangPrompt", "ContextPrompt", "MenuOpen"}

\* C31: whenever the program asks a question (language, context, menu), the
\* readline interface is open; no question is asked on a closed interface,
\* also not after a Regenerate.
C31_QuestionsOnlyOnOpenInterface ==
    /\ pc \in QuestionPlaces => rlOpen
    /\ event # "QuestionOnClosedInterface"

\* the ways run() finishes that are not an error of the environment
RunEndings == {"Committed", "Cancelled", "NoChanges", "GenFailed"}

\* C32: when run() has finished by a commit, a cancel, nothing to commit or a
\* failed generation, the program has called process.exit, or it has closed
\* the readline interface and stopped every timer, so that nothing keeps the
\* process alive.
C32_NothingKeepsProcessAlive ==
    pc \in RunEndings =>
       \/ CallsProcessExit(variant, pc)
       \/ ~rlOpen /\ spinners = 0

\* C33: a commit call that succeeded leaves the run in Committed and a Cancel
\* choice leaves it in Cancelled, and from there the run takes no further
\* step: no generation call, no commit call, no editor launch, no prompt.
C33_CommittedAndCancelledAreAbsorbing ==
    /\ [](commitOk = "ok" => pc = "Committed")
    /\ []((choices # <<>> /\ Last(choices) = "Cancel") => pc = "Cancelled")
    /\ [][ (pc \in {"Committed", "Cancelled"})
             => UNCHANGED <<pc, genCalls, commitCalls, editorLaunches,
                            choices, menuShown, ctxPrompts, langTries>> ]_vars

C33_Witness ==
    /\ variant = "index" /\ pc = "Cancelled" /\ exitCode = "0"
    /\ choices = <<"Regenerate", "Cancel">>
    /\ genCalls = 2 /\ commitCalls = 0 /\ editorLaunches = 0

\* C34, for part_004 and index.js: when the reads succeed and the porcelain
\* status after staging has at least one entry, whatever its code, the summary
\* is not all-zero and the run does not end as "nothing to commit".
C34_AnyStatusEntryIsAChange ==
    [][ (readCalls' = readCalls + 1 /\ variant \in RunVersions
           /\ repo.status # <<>> /\ event' # "ReadFailed")
          => /\ summary' # NoSummary
             /\ pc' # "NoChanges" ]_vars

====
